---------------------------- MODULE Spec2Model ----------------------------
(***************************************************************************)
(* Model of config.py, the Emotiv Cortex configuration loader.             *)
(*                                                                         *)
(* A text (Python str) is a sequence of characters; a character is a       *)
(* one-character string.  Characters that cannot be written inside a TLA+  *)
(* string are written by code point: "U+2550" is one character.            *)
(* A path is the sequence of its components below the root directory.      *)
(***************************************************************************)
EXTENDS Integers, Sequences, FiniteSets, TLC

-----------------------------------------------------------------------------
(* Bounds of the model *)

\* at most this many variables are set in the environment the shell hands over
MaxEnvVars == 2
\* at most this many validate() calls are followed
MaxCalls == 2
\* at most this many changes of os.environ or of the .env file after the import
MaxEnvChanges == 1

-----------------------------------------------------------------------------
(* Python built-ins used by config.py *)

\* c * n
Repeat(c, n) == [i \in 1..n |-> c]

UpperLetters ==
    << "A", "B", "C", "D", "E", "F", "G", "H", "I", "J", "K", "L", "M", "N", "O", "P",
       "Q", "R", "S", "T", "U", "V", "W", "X", "Y", "Z" >>

LowerLetters ==
    << "a", "b", "c", "d", "e", "f", "g", "h", "i", "j", "k", "l", "m", "n", "o", "p",
       "q", "r", "s", "t", "u", "v", "w", "x", "y", "z" >>

DigitChars ==
    << "0", "1", "2", "3", "4", "5", "6", "7", "8", "9" >>

\* the index of c in the sequence s, 0 when c does not occur
IndexOf(s, c) ==
    IF \E i \in 1..Len(s) : s[i] = c
    THEN CHOOSE i \in 1..Len(s) : s[i] = c /\ \A j \in 1..(i - 1) : s[j] # c
    ELSE 0

\* str.lower() on one character
LowerChar(c) ==
    IF IndexOf(UpperLetters, c) # 0 THEN LowerLetters[IndexOf(UpperLetters, c)] ELSE c

\* str.lower()
Lower(t) == [i \in 1..Len(t) |-> LowerChar(t[i])]

\* str.strip() as int() applies it: leading and trailing blanks are dropped
RECURSIVE Strip(_)
Strip(t) ==
    IF t = << >> THEN t
    ELSE IF Head(t) = " " THEN Strip(Tail(t))
    ELSE IF t[Len(t)] = " " THEN Strip(SubSeq(t, 1, Len(t) - 1))
    ELSE t

IsDigit(c) == IndexOf(DigitChars, c) # 0

\* the digit part of an integer literal: digits, single underscores between them
IsDigitPart(d) ==
    /\ Len(d) > 0
    /\ IsDigit(d[1]) /\ IsDigit(d[Len(d)])
    /\ \A i \in 1..Len(d) :
          \/ IsDigit(d[i])
          \/ d[i] = "_" /\ IsDigit(d[i - 1]) /\ IsDigit(d[i + 1])

\* the text without its sign
Unsigned(t) == IF t # << >> /\ Head(t) \in {"+", "-"} THEN Tail(t) ELSE t

\* int(t) returns a value (otherwise it raises ValueError)
IsIntText(t) == IsDigitPart(Unsigned(Strip(t)))

RECURSIVE DigitsValue(_, _)
DigitsValue(d, acc) ==
    IF d = << >> THEN acc
    ELSE IF Head(d) = "_" THEN DigitsValue(Tail(d), acc)
    ELSE DigitsValue(Tail(d), acc * 10 + (IndexOf(DigitChars, Head(d)) - 1))

\* int(t), for a text that IsIntText
IntOf(t) ==
    LET s == Strip(t)
        v == DigitsValue(Unsigned(s), 0)
    IN  IF Head(s) = "-" THEN 0 - v ELSE v

RECURSIVE NatText(_)
NatText(n) ==
    IF n < 10 THEN << DigitChars[n + 1] >>
    ELSE NatText(n \div 10) \o << DigitChars[(n % 10) + 1] >>

\* str(n) of an int
IntText(n) == IF n < 0 THEN << "-" >> \o NatText(0 - n) ELSE NatText(n)

\* ", ".join(parts)
RECURSIVE Join(_)
Join(parts) ==
    IF parts = << >> THEN << >>
    ELSE IF Len(parts) = 1 THEN parts[1]
    ELSE parts[1] \o << ",", " " >> \o Join(Tail(parts))

\* f"{key:<16}": the key, padded on the right with blanks to 16 characters
LeftJustify16(key) ==
    IF Len(key) >= 16 THEN key ELSE key \o Repeat(" ", 16 - Len(key))

-----------------------------------------------------------------------------
(* The filesystem and pathlib *)

\* str(Path.home())
HomeText == << "/", "h" >>
\* the working directory of the process
Cwd == << << "w" >> >>

ExportSubfolder ==
    << "c", "o", "r", "t", "e", "x", "_", "e", "x", "p", "o", "r", "t", "s" >>

\* str(Path.home() / "cortex_exports")
DefaultExportFolder == HomeText \o << "/" >> \o ExportSubfolder

\* the parts of a path text between its slashes
RECURSIVE Split(_, _, _)
Split(t, cur, acc) ==
    IF t = << >> THEN Append(acc, cur)
    ELSE IF Head(t) = "/" THEN Split(Tail(t), << >>, Append(acc, cur))
    ELSE Split(Tail(t), Append(cur, Head(t)), acc)

\* Path(t), made absolute as the operating system resolves it: empty and "."
\* parts are dropped, and a relative path starts at the working directory
PathOf(t) ==
    LET parts == SelectSeq(Split(t, << >>, << >>), LAMBDA c : c # << >> /\ c # << "." >>)
    IN  IF t # << >> /\ Head(t) = "/" THEN parts ELSE Cwd \o parts

\* the directory entries the model follows
Nodes ==
    { << >>, << << "h" >> >>, << << "h" >>, ExportSubfolder >>, << << "w" >> >>,
      << << "d" >> >>, << << "d" >>, << "e" >> >> }

\* kinds of entry: "none" (no entry), "dir", "rodir" (a directory the process
\* may not write to), "file" (anything that is not a directory)
Parent(p) == SubSeq(p, 1, Len(p) - 1)
IsDir(f, p) == f[p] \in {"dir", "rodir"}

\* os.mkdir(p): "OK" or the errno it fails with
OsMkdir(f, p) ==
    LET bad == {i \in 0..(Len(p) - 1) : ~IsDir(f, SubSeq(p, 1, i))}
        first == CHOOSE i \in bad : \A j \in bad : i <= j
    IN  IF p = << >> THEN "EEXIST"
        ELSE IF bad # {}
             THEN (IF f[SubSeq(p, 1, first)] = "none" THEN "ENOENT" ELSE "ENOTDIR")
        ELSE IF f[p] # "none" THEN "EEXIST"
        ELSE IF f[Parent(p)] = "rodir" THEN "EACCES"
        ELSE "OK"

\* the exception class of an errno
OSErrorOf(e) ==
    CASE e = "ENOENT"  -> "FileNotFoundError"
      [] e = "ENOTDIR" -> "NotADirectoryError"
      [] e = "EEXIST"  -> "FileExistsError"
      [] e = "EACCES"  -> "PermissionError"

\* Path.mkdir(parents=False, exist_ok=True): the filesystem afterwards and the
\* exception raised ("none" when it returns)
MkdirNoParents(f, p) ==
    LET e == OsMkdir(f, p)
    IN  IF e = "OK" THEN [fs |-> [f EXCEPT ![p] = "dir"], err |-> "none"]
        ELSE IF e # "ENOENT" /\ IsDir(f, p) THEN [fs |-> f, err |-> "none"]
        ELSE [fs |-> f, err |-> OSErrorOf(e)]

\* faulty variant of PathMkdir: parents=False, a missing parent is an error
PathMkdir_parentsFalse(f, p) == MkdirNoParents(f, p)

\* faulty variant of PathMkdir: exist_ok=False, an existing directory is an error
RECURSIVE PathMkdir_existNotOk(_, _)
PathMkdir_existNotOk(f, p) ==
    LET e == OsMkdir(f, p)
    IN  IF e = "OK" THEN [fs |-> [f EXCEPT ![p] = "dir"], err |-> "none"]
        ELSE IF e = "ENOENT"
             THEN LET up == PathMkdir_existNotOk(f, Parent(p))
                  IN  IF up.err # "none" THEN up
                      ELSE [fs |-> [up.fs EXCEPT ![p] = "dir"], err |-> "none"]
        ELSE [fs |-> f, err |-> OSErrorOf(e)]

\* Path.mkdir(parents=True, exist_ok=True)
RECURSIVE PathMkdir(_, _)
PathMkdir(f, p) ==
    LET e == OsMkdir(f, p)
    IN  IF e = "OK" THEN [fs |-> [f EXCEPT ![p] = "dir"], err |-> "none"]
        ELSE IF e = "ENOENT"
             THEN LET up == PathMkdir(f, Parent(p))
                  IN  IF up.err # "none" THEN up ELSE MkdirNoParents(up.fs, p)
        ELSE IF IsDir(f, p) THEN [fs |-> f, err |-> "none"]
        ELSE [fs |-> f, err |-> OSErrorOf(e)]

-----------------------------------------------------------------------------
(* The state *)

VARIABLES
    environ,          \* os.environ: a function from the names that are set to their texts
    dotenvInstalled,  \* whether "from dotenv import load_dotenv" succeeds
    envFile,          \* the .env file beside config.py: whether it exists, and its pairs
    fs,               \* the filesystem: the kind of every entry of Nodes
    pc,               \* "start", "loaded" (imported), "crashed" (the import raised),
                      \* "exited" (the run as a script has ended)
    CLIENT_ID, CLIENT_SECRET, HEADSET_ID, LICENSE, DEBIT, DEBUG, EXPORT_FOLDER,
    raised,           \* the exception the last operation let out: its class, message, raiser
    out,              \* the text printed to standard output
    calls,            \* the number of validate() calls made so far
    envChanges        \* the number of changes to the environment after the import

settings == << CLIENT_ID, CLIENT_SECRET, HEADSET_ID, LICENSE, DEBIT, DEBUG, EXPORT_FOLDER >>

vars == << environ, dotenvInstalled, envFile, fs, pc, CLIENT_ID, CLIENT_SECRET, HEADSET_ID,
           LICENSE, DEBIT, DEBUG, EXPORT_FOLDER, raised, out, calls, envChanges >>

Keys ==
    { "EMOTIV_CLIENT_ID", "EMOTIV_CLIENT_SECRET", "EMOTIV_HEADSET_ID", "EMOTIV_LICENSE",
      "EMOTIV_DEBIT", "EMOTIV_DEBUG", "EMOTIV_EXPORT_FOLDER" }

NoError == [type |-> "none", msg |-> << >>, by |-> "none"]

-----------------------------------------------------------------------------
(* The inputs: the environment of the shell, the .env file, the disk *)

\* the texts a variable of the environment may be set to
EnvTexts(k) ==
    CASE k = "EMOTIV_CLIENT_ID"     -> { << >>, << "i", "d" >> }
      [] k = "EMOTIV_CLIENT_SECRET" -> { << >>, << "s", "3" >>, << "i", "d" >> }
      [] k = "EMOTIV_HEADSET_ID"    -> { << >>, << "H" >> }
      [] k = "EMOTIV_LICENSE"       -> { << >>, << "L" >> }
      [] k = "EMOTIV_DEBIT"         -> { << >>, << "2", "5" >>, << "x" >> }
      [] k = "EMOTIV_DEBUG"         -> { << >>, << "T", "R", "U", "E" >>, << "Y", "e", "s" >>,
                                         << "1" >>, << "f", "a", "l", "s", "e" >>,
                                         << "n", "o" >>,
                                         << "r", "a", "n", "d", "o", "m" >> }
      [] k = "EMOTIV_EXPORT_FOLDER" -> { << >>, << "/", "d", "/", "e" >> }

AllEnvTexts == UNION {EnvTexts(k) : k \in Keys}

\* the environments with at most MaxEnvVars variables set
Environments ==
    UNION { {e \in [S -> AllEnvTexts] : \A k \in S : e[k] \in EnvTexts(k)} :
            S \in {T \in SUBSET Keys : Cardinality(T) <= MaxEnvVars} }

NoFile == [exists |-> FALSE, values |-> << >>]

\* a .env file that sets both credentials, the debit and the debug flag
FileA ==
    [exists |-> TRUE,
     values |-> [k \in {"EMOTIV_CLIENT_ID", "EMOTIV_CLIENT_SECRET", "EMOTIV_DEBIT",
                        "EMOTIV_DEBUG"} |->
                   CASE k = "EMOTIV_CLIENT_ID"     -> << "f", "i", "d" >>
                     [] k = "EMOTIV_CLIENT_SECRET" -> << "f", "s" >>
                     [] k = "EMOTIV_DEBIT"         -> << " ", "+", "1", "_", "2" >>
                     [] k = "EMOTIV_DEBUG"         -> << "y", "e", "s" >>]]

EnvFiles == {NoFile, FileA}

\* a disk on which only the home and the working directory exist
FsFresh ==
    [p \in Nodes |-> IF Len(p) = 0 \/ p \in {<< << "h" >> >>, Cwd} THEN "dir" ELSE "none"]
\* a disk on which every directory exists already
FsExisting == [p \in Nodes |-> "dir"]
\* a disk on which regular files stand where directories are wanted
FsBlocked ==
    [p \in Nodes |-> IF p \in {<< << "h" >>, ExportSubfolder >>, << << "d" >> >>} THEN "file"
                     ELSE FsFresh[p]]
\* a fresh disk whose directories the process may not write to
FsReadOnly == [p \in Nodes |-> IF FsFresh[p] = "dir" THEN "rodir" ELSE "none"]

Filesystems == {FsFresh, FsExisting, FsBlocked, FsReadOnly}

\* the variables the host program may later set in os.environ, and the texts
PutKeys == { "EMOTIV_CLIENT_ID", "EMOTIV_DEBIT", "EMOTIV_EXPORT_FOLDER" }
PutTexts == { << "z" >> }

Init ==
    /\ environ \in Environments
    /\ dotenvInstalled \in BOOLEAN
    /\ envFile \in EnvFiles
    /\ fs \in Filesystems
    /\ pc = "start"
    \* the module's names are not bound yet; the values below are never read
    /\ CLIENT_ID = << >> /\ CLIENT_SECRET = << >> /\ HEADSET_ID = << >> /\ LICENSE = << >>
    /\ DEBIT = 0 /\ DEBUG = FALSE /\ EXPORT_FOLDER = << >>
    /\ raised = NoError
    /\ out = << >>
    /\ calls = 0
    /\ envChanges = 0

-----------------------------------------------------------------------------
(* Module initialisation: lines 23-66 *)

\* faulty variant of LoadDotenv: override=True, the file wins
LoadDotenv_override(env, values) ==
    [k \in (DOMAIN env) \cup (DOMAIN values) |->
        IF k \in DOMAIN values THEN values[k] ELSE env[k]]

\* load_dotenv(path), override=False: a pair of the file is put into os.environ
\* only when its name is not set there already
LoadDotenv(env, values) ==
    [k \in (DOMAIN env) \cup (DOMAIN values) |-> IF k \in DOMAIN env THEN env[k] ELSE values[k]]

\* os.getenv(k, default)
Getenv(env, k, default) == IF k \in DOMAIN env THEN env[k] ELSE default

\* the texts DEBUG takes for true
TrueTexts == { << "1" >>, << "t", "r", "u", "e" >>, << "y", "e", "s" >> }

\* faulty variant of CoerceBool: the text is not lowered before the test
CoerceBool_caseSensitive(t) == t \in TrueTexts

\* t.lower() in ("1", "true", "yes")
CoerceBool(t) == Lower(t) \in TrueTexts

\* faulty variant of Default: the debit falls back to the empty text
Default_emptyDebit(k) ==
    CASE k = "EMOTIV_DEBUG"         -> << "f", "a", "l", "s", "e" >>
      [] k = "EMOTIV_EXPORT_FOLDER" -> DefaultExportFolder
      [] OTHER                      -> << >>

\* the default text of each os.getenv call of lines 40-66
Default(k) ==
    CASE k = "EMOTIV_DEBIT"         -> << "1", "0" >>
      [] k = "EMOTIV_DEBUG"         -> << "f", "a", "l", "s", "e" >>
      [] k = "EMOTIV_EXPORT_FOLDER" -> DefaultExportFolder
      [] OTHER                      -> << >>

\* the value a setting takes from the text t: int(t) for the debit, the
\* membership test for the debug flag, the text itself for the others
Coerce(k, t) ==
    CASE k = "EMOTIV_DEBIT" -> IntOf(t)
      [] k = "EMOTIV_DEBUG" -> CoerceBool(t)
      [] OTHER              -> t

\* the module-level name bound from the variable k
Setting(k) ==
    CASE k = "EMOTIV_CLIENT_ID"     -> CLIENT_ID
      [] k = "EMOTIV_CLIENT_SECRET" -> CLIENT_SECRET
      [] k = "EMOTIV_HEADSET_ID"    -> HEADSET_ID
      [] k = "EMOTIV_LICENSE"       -> LICENSE
      [] k = "EMOTIV_DEBIT"         -> DEBIT
      [] k = "EMOTIV_DEBUG"         -> DEBUG
      [] k = "EMOTIV_EXPORT_FOLDER" -> EXPORT_FOLDER

\* the import of config.py: the .env file is read into os.environ, then the seven
\* names are bound in order; int() of a non-numeric debit raises ValueError, and
\* the names after LICENSE stay unbound
Import ==
    /\ pc = "start"
    /\ LET env == IF dotenvInstalled /\ envFile.exists
                  THEN LoadDotenv(environ, envFile.values) ELSE environ
           Read(k) == Getenv(env, k, Default(k))
       IN  /\ environ' = env
           /\ CLIENT_ID' = Coerce("EMOTIV_CLIENT_ID", Read("EMOTIV_CLIENT_ID"))
           /\ CLIENT_SECRET' = Coerce("EMOTIV_CLIENT_SECRET", Read("EMOTIV_CLIENT_SECRET"))
           /\ HEADSET_ID' = Coerce("EMOTIV_HEADSET_ID", Read("EMOTIV_HEADSET_ID"))
           /\ LICENSE' = Coerce("EMOTIV_LICENSE", Read("EMOTIV_LICENSE"))
           /\ IF IsIntText(Read("EMOTIV_DEBIT"))
              THEN /\ DEBIT' = Coerce("EMOTIV_DEBIT", Read("EMOTIV_DEBIT"))
                   /\ DEBUG' = Coerce("EMOTIV_DEBUG", Read("EMOTIV_DEBUG"))
                   /\ EXPORT_FOLDER' = Coerce("EMOTIV_EXPORT_FOLDER",
                                              Read("EMOTIV_EXPORT_FOLDER"))
                   /\ pc' = "loaded"
                   /\ raised' = NoError
              ELSE /\ UNCHANGED << DEBIT, DEBUG, EXPORT_FOLDER >>
                   /\ pc' = "crashed"
                   /\ raised' = [type |-> "ValueError", msg |-> << >>, by |-> "import"]
    /\ UNCHANGED << dotenvInstalled, envFile, fs, out, calls, envChanges >>

-----------------------------------------------------------------------------
(* validate(): lines 76-104 *)

KeyText_CLIENT_ID ==
    << "E", "M", "O", "T", "I", "V", "_", "C", "L", "I", "E", "N", "T", "_", "I", "D" >>

KeyText_CLIENT_SECRET ==
    << "E", "M", "O", "T", "I", "V", "_", "C", "L", "I", "E", "N", "T", "_", "S", "E",
       "C", "R", "E", "T" >>

\* faulty variant of Missing: the second test is an elif
Missing_firstOnly(id, secret) ==
    IF id = << >> THEN << KeyText_CLIENT_ID >>
    ELSE IF secret = << >> THEN << KeyText_CLIENT_SECRET >>
    ELSE << >>

\* the list "missing" of lines 86-90
Missing(id, secret) ==
    (IF id = << >> THEN << KeyText_CLIENT_ID >> ELSE << >>)
    \o (IF secret = << >> THEN << KeyText_CLIENT_SECRET >> ELSE << >>)

MsgLine94 ==
    << "\n" >>

MsgLine95 ==
    Repeat("U+2550", 63)
    \o << "U+2557", "\n" >>

MsgLine96 ==
    << " ", " ", "M", "i", "s", "s", "i", "n", "g", " ", "C", "o", "r", "t", "e", "x",
       " ", "c", "r", "e", "d", "e", "n", "t", "i", "a", "l", "s", "!" >>
    \o Repeat(" ", 34)
    \o << "\n" >>

MsgLine97 ==
    << " ", " ", "P", "l", "e", "a", "s", "e", " ", "c", "o", "p", "y", " ", "U+0060", ".",
       "e", "n", "v", ".", "e", "x", "a", "m", "p", "l", "e", "U+0060", " ", "U+2192", " ", "U+0060",
       ".", "e", "n", "v", "U+0060", " ", "a", "n", "d", " ", "f", "i", "l", "l", " ", "i",
       "n", ":" >>
    \o Repeat(" ", 12)
    \o << "\n" >>

MsgLine98Indent ==
    << " ", " ", " ", " " >>

MsgLine98Pad ==
    Repeat(" ", 39)
    \o << "\n" >>

MsgLine99 ==
    << " ", " ", "S", "e", "e", ":", " ", "h", "t", "t", "p", "s", ":", "/", "/", "e",
       "m", "o", "t", "i", "v", ".", "g", "i", "t", "b", "o", "o", "k", ".", "i", "o",
       "/", "c", "o", "r", "t", "e", "x", "-", "a", "p", "i", "#", "c", "r", "e", "a",
       "t", "e", "-", "a", "-", "c", "o", "r", "t", "e", "x", "-", "a", "p", "p", "\n" >>

MsgLine100 ==
    Repeat("U+2550", 63)
    \o << "U+255D", "\n" >>

\* the message of the RuntimeError of lines 93-101
Message(missing) ==
    MsgLine94 \o MsgLine95 \o MsgLine96 \o MsgLine97
    \o MsgLine98Indent \o Join(missing) \o MsgLine98Pad
    \o MsgLine99 \o MsgLine100

\* faulty variant of validate: the export folder is made before the credentials
\* are tested
validate_mkdirFirst(f) ==
    LET missing == Missing(CLIENT_ID, CLIENT_SECRET)
        made == PathMkdir(f, PathOf(EXPORT_FOLDER))
    IN  IF made.err # "none"
        THEN [fs |-> made.fs, raised |-> [type |-> made.err, msg |-> << >>, by |-> "validate"]]
        ELSE IF missing # << >>
        THEN [fs |-> made.fs,
              raised |-> [type |-> "RuntimeError", msg |-> Message(missing),
                          by |-> "validate"]]
        ELSE [fs |-> made.fs, raised |-> NoError]

\* the body of validate() on the filesystem f: the filesystem it leaves and the
\* exception it raises
validate(f) ==
    LET missing == Missing(CLIENT_ID, CLIENT_SECRET)
        made == PathMkdir(f, PathOf(EXPORT_FOLDER))
    IN  IF missing # << >>
        THEN [fs |-> f,
              raised |-> [type |-> "RuntimeError", msg |-> Message(missing),
                          by |-> "validate"]]
        ELSE [fs |-> made.fs,
              raised |-> IF made.err = "none" THEN NoError
                         ELSE [type |-> made.err, msg |-> << >>, by |-> "validate"]]

\* faulty variant of Validate: the call reads EMOTIV_CLIENT_ID again and rebinds
\* the module-level name
Validate_rereads ==
    /\ pc = "loaded"
    /\ calls < MaxCalls
    /\ fs' = validate(fs).fs
    /\ raised' = validate(fs).raised
    /\ calls' = calls + 1
    /\ CLIENT_ID' = Getenv(environ, "EMOTIV_CLIENT_ID", << >>)
    /\ UNCHANGED << environ, dotenvInstalled, envFile, pc, CLIENT_SECRET, HEADSET_ID,
                    LICENSE, DEBIT, DEBUG, EXPORT_FOLDER, out, envChanges >>

\* a script that imported config calls validate()
Validate ==
    /\ pc = "loaded"
    /\ calls < MaxCalls
    /\ fs' = validate(fs).fs
    /\ raised' = validate(fs).raised
    /\ calls' = calls + 1
    /\ UNCHANGED << environ, dotenvInstalled, envFile, pc, settings, out, envChanges >>

-----------------------------------------------------------------------------
(* The self-test of lines 110-127, run when config.py is the script *)

ReportHeader ==
    << "=", "=", "=", " ", "E", "m", "o", "t", "i", "v", " ", "C", "o", "r", "t", "e",
       "x", " ", "C", "o", "n", "f", "i", "g", "u", "r", "a", "t", "i", "o", "n", " ",
       "=", "=", "=", "\n" >>

LooksGoodText ==
    << "\n", "U+2714", " ", " ", "C", "o", "n", "f", "i", "g", "u", "r", "a", "t", "i", "o",
       "n", " ", "l", "o", "o", "k", "s", " ", "g", "o", "o", "d", "!", "\n" >>

\* print(f"  {key:<16} : {val}")
ReportLine(key, val) ==
    << " ", " " >> \o LeftJustify16(key) \o << " ", ":", " " >> \o val \o << "\n" >>

\* faulty variant of SecretShown: the secret is shown as it is
SecretShown_plain(secret) ==
    IF secret # << >> THEN secret
    ELSE << "(", "n", "o", "t", " ", "s", "e", "t", ")" >>

\* what the report shows for the client secret
SecretShown(secret) ==
    IF secret # << >> THEN Repeat("*", Len(secret))
    ELSE << "(", "n", "o", "t", " ", "s", "e", "t", ")" >>

\* str(b) of a bool
BoolText(b) == IF b THEN << "T", "r", "u", "e" >> ELSE << "F", "a", "l", "s", "e" >>

\* the header and the seven lines of the summary
Summary ==
    ReportHeader
    \o ReportLine(<< "C", "L", "I", "E", "N", "T", "_", "I", "D" >>,
                  IF CLIENT_ID # << >> THEN CLIENT_ID
                  ELSE << "(", "n", "o", "t", " ", "s", "e", "t", ")" >>)
    \o ReportLine(<< "C", "L", "I", "E", "N", "T", "_", "S", "E", "C", "R", "E", "T" >>,
                  SecretShown(CLIENT_SECRET))
    \o ReportLine(<< "H", "E", "A", "D", "S", "E", "T", "_", "I", "D" >>,
                  IF HEADSET_ID # << >> THEN HEADSET_ID
                  ELSE << "(", "a", "u", "t", "o", "-", "d", "e", "t", "e", "c", "t", ")" >>)
    \o ReportLine(<< "L", "I", "C", "E", "N", "S", "E" >>,
                  IF LICENSE # << >> THEN LICENSE ELSE << "(", "n", "o", "n", "e", ")" >>)
    \o ReportLine(<< "D", "E", "B", "I", "T" >>, IntText(DEBIT))
    \o ReportLine(<< "D", "E", "B", "U", "G" >>, BoolText(DEBUG))
    \o ReportLine(<< "E", "X", "P", "O", "R", "T", "_", "F", "O", "L", "D", "E", "R" >>,
                  EXPORT_FOLDER)

\* python config.py, after the import: the summary is printed, validate() is
\* called, and its RuntimeError is caught and printed; any other exception of
\* validate() ends the script
SelfTest ==
    /\ pc = "loaded"
    /\ calls = 0
    /\ envChanges = 0
    /\ LET v == validate(fs)
       IN  /\ fs' = v.fs
           /\ out' = out \o Summary
                         \o (IF v.raised.type = "none" THEN LooksGoodText
                             ELSE IF v.raised.type = "RuntimeError"
                                  THEN v.raised.msg \o << "\n" >>
                             ELSE << >>)
           /\ raised' = IF v.raised.type = "RuntimeError" THEN NoError ELSE v.raised
    /\ calls' = calls + 1
    /\ pc' = "exited"
    /\ UNCHANGED << environ, dotenvInstalled, envFile, settings, envChanges >>

-----------------------------------------------------------------------------
(* What happens around the module after the import *)

\* the host program sets a variable of os.environ
Putenv ==
    /\ pc = "loaded"
    /\ envChanges < MaxEnvChanges
    /\ \E k \in PutKeys, v \in PutTexts :
          environ' = [j \in (DOMAIN environ) \cup {k} |-> IF j = k THEN v ELSE environ[j]]
    /\ envChanges' = envChanges + 1
    /\ UNCHANGED << dotenvInstalled, envFile, fs, pc, settings, raised, out, calls >>

\* the .env file is written, replaced or removed
RewriteEnvFile ==
    /\ pc = "loaded"
    /\ envChanges < MaxEnvChanges
    /\ envFile' \in EnvFiles \ {envFile}
    /\ envChanges' = envChanges + 1
    /\ UNCHANGED << environ, dotenvInstalled, fs, pc, settings, raised, out, calls >>

Next == Import \/ Validate \/ SelfTest \/ Putenv \/ RewriteEnvFile

Spec == Init /\ [][Next]_vars

-----------------------------------------------------------------------------
(* Vocabulary of the properties *)

\* the text needle occurs in the text hay
Contains(hay, needle) ==
    \E i \in 0..(Len(hay) - Len(needle)) : SubSeq(hay, i + 1, i + Len(needle)) = needle

\* both mandatory credentials were loaded non-empty
CredentialsSet == CLIENT_ID # << >> /\ CLIENT_SECRET # << >>

\* Path(EXPORT_FOLDER)
ExportPath == PathOf(EXPORT_FOLDER)

\* the step is a call of validate(), by a script or by the self-test
ValidateCalled == pc = "loaded" /\ calls' = calls + 1

\* the directory p can be brought into being on f: no entry on the way to p is a
\* non-directory, and the deepest directory that exists may be written to unless
\* it is p itself
Creatable(f, p) ==
    \A i \in 0..Len(p) :
        /\ f[SubSeq(p, 1, i)] # "file"
        /\ (f[SubSeq(p, 1, i)] = "rodir" /\ i < Len(p)) => f[SubSeq(p, 1, i + 1)] # "none"

\* a and b are the same text up to the case of their letters
SameIgnoringCase(a, b) ==
    /\ Len(a) = Len(b)
    /\ \A i \in 1..Len(a) :
          \/ a[i] = b[i]
          \/ \E n \in 1..26 : {a[i], b[i]} = {UpperLetters[n], LowerLetters[n]}

\* the defaults of the settings table
DocumentedDefault(k) ==
    CASE k = "EMOTIV_DEBIT"         -> 10
      [] k = "EMOTIV_DEBUG"         -> FALSE
      [] k = "EMOTIV_EXPORT_FOLDER" -> HomeText \o << "/" >> \o ExportSubfolder
      [] OTHER                      -> << >>

-----------------------------------------------------------------------------
(* C1 *)

\* C1, as stated: after a validate() call with both credentials loaded
\* non-empty, the call has returned without error and the export folder is a
\* directory.
C1_ValidateAlwaysSucceeds ==
    (pc = "loaded" /\ calls >= 1 /\ CredentialsSet)
        => (raised.type = "none" /\ IsDir(fs, ExportPath))

\* C1, amended: a validate() call made with both credentials loaded non-empty,
\* on a filesystem where the export folder can be created or is a directory
\* already, returns without error and leaves the export folder a directory.
C1_ValidateCreatesExportFolder ==
    [][(ValidateCalled /\ CredentialsSet /\ Creatable(fs, ExportPath))
         => (raised'.type = "none" /\ IsDir(fs', ExportPath))]_vars

\* validate() has created the export folder and its missing parent
C1_Witness ==
    /\ pc = "loaded" /\ calls >= 1 /\ CredentialsSet
    /\ raised.type = "none"
    /\ ExportPath = << << "d" >>, << "e" >> >>
    /\ fs[ExportPath] = "dir" /\ fs \notin Filesystems

-----------------------------------------------------------------------------
(* C2 *)

\* C2: after a validate() call with client_id or client_secret loaded empty, the
\* call has raised the configuration error (RuntimeError in the code), and its
\* message names EMOTIV_CLIENT_ID exactly when client_id is empty and
\* EMOTIV_CLIENT_SECRET exactly when client_secret is empty.
C2_MessageNamesEveryMissingField ==
    (pc = "loaded" /\ calls >= 1 /\ ~CredentialsSet)
        => /\ raised.type = "RuntimeError"
           /\ Contains(raised.msg, KeyText_CLIENT_ID) <=> (CLIENT_ID = << >>)
           /\ Contains(raised.msg, KeyText_CLIENT_SECRET) <=> (CLIENT_SECRET = << >>)

\* both credentials are missing and the message names both
C2_Witness ==
    /\ pc = "loaded" /\ calls >= 1
    /\ CLIENT_ID = << >> /\ CLIENT_SECRET = << >>
    /\ Contains(raised.msg, KeyText_CLIENT_ID)
    /\ Contains(raised.msg, KeyText_CLIENT_SECRET)

-----------------------------------------------------------------------------
(* C3 *)

\* C3: at the import, every variable that is set in the environment keeps its
\* text and gives the setting its value, whatever the .env file says for it; a
\* variable enters the environment from the .env file only if it was not set.
C3_EnvironmentBeatsSettingsFile ==
    [][(pc = "start" /\ pc' = "loaded")
         => \A k \in Keys :
              /\ k \in DOMAIN environ
                    => (environ'[k] = environ[k] /\ Setting(k)' = Coerce(k, environ[k]))
              /\ (k \notin DOMAIN environ /\ k \in DOMAIN environ')
                    => (environ'[k] = envFile.values[k]
                        /\ Setting(k)' = Coerce(k, envFile.values[k]))]_vars

\* the client id was set to "id" in the environment and to "fid" in the .env
\* file that was read, and the loaded client id is "id"
C3_Witness ==
    /\ pc = "loaded" /\ envChanges = 0
    /\ dotenvInstalled /\ envFile.exists
    /\ envFile.values["EMOTIV_CLIENT_ID"] = << "f", "i", "d" >>
    /\ CLIENT_ID = << "i", "d" >>
    /\ CLIENT_SECRET = << "f", "s" >>

-----------------------------------------------------------------------------
(* C4 *)

\* C4, as stated: once the import has run, every setting whose variable is
\* absent or set to the empty text has been loaded as its documented default;
\* in particular the import has not failed on an empty EMOTIV_DEBIT.
C4_DefaultWhenAbsentOrEmpty ==
    envChanges = 0
        => /\ pc \in {"loaded", "exited"}
                => \A k \in Keys :
                      (k \notin DOMAIN environ \/ Getenv(environ, k, << >>) = << >>)
                         => Setting(k) = DocumentedDefault(k)
           /\ pc = "crashed" => Getenv(environ, "EMOTIV_DEBIT", << >>) # << >>

-----------------------------------------------------------------------------
(* C5 *)

\* C5: the loaded debug flag is true exactly when EMOTIV_DEBUG is set and its
\* text is "1", "true" or "yes" up to the case of the letters.
C5_DebugCoercion ==
    (pc \in {"loaded", "exited"} /\ envChanges = 0)
        => DEBUG = /\ "EMOTIV_DEBUG" \in DOMAIN environ
                   /\ \E t \in { << "1" >>, << "t", "r", "u", "e" >>, << "y", "e", "s" >> } :
                         SameIgnoringCase(environ["EMOTIV_DEBUG"], t)

\* EMOTIV_DEBUG is "TRUE" and the flag is true
C5_Witness ==
    /\ pc = "loaded" /\ envChanges = 0
    /\ "EMOTIV_DEBUG" \in DOMAIN environ
    /\ environ["EMOTIV_DEBUG"] = << "T", "R", "U", "E" >>
    /\ DEBUG

-----------------------------------------------------------------------------
(* C6 *)

\* the label that precedes the value on the CLIENT_SECRET line
SecretLabel ==
    << " ", " ", "C", "L", "I", "E", "N", "T", "_", "S", "E", "C", "R", "E", "T",
       " ", " ", " ", " ", ":", " " >>

\* C6, as stated: the text printed by the self-test never contains a non-empty
\* client secret.
C6_ReportNeverContainsSecret ==
    (pc = "exited" /\ CLIENT_SECRET # << >>) => ~Contains(out, CLIENT_SECRET)

\* C6, amended: the CLIENT_SECRET line of the printed text shows, after its
\* label, asterisks of the secret's length and nothing else; and the printed text
\* contains the secret only if the secret contains an asterisk or occurs in the
\* text before or after that mask.
C6_SecretShownOnlyAsMask ==
    (pc = "exited" /\ CLIENT_SECRET # << >>)
        => \E a \in Len(SecretLabel)..Len(out) :
              LET n == Len(CLIENT_SECRET)
                  before == SubSeq(out, 1, a)
                  after == SubSeq(out, a + n + 1, Len(out))
              IN  /\ SubSeq(out, a - Len(SecretLabel) + 1, a) = SecretLabel
                  /\ SubSeq(out, a + 1, a + n) = Repeat("*", n)
                  /\ a + n < Len(out) /\ out[a + n + 1] = "\n"
                  /\ ( /\ \A i \in 1..n : CLIENT_SECRET[i] # "*"
                       /\ ~Contains(before, CLIENT_SECRET)
                       /\ ~Contains(after, CLIENT_SECRET) )
                        => ~Contains(out, CLIENT_SECRET)

\* the secret "s3" was loaded, the report was printed and does not contain it
C6_Witness ==
    /\ pc = "exited"
    /\ CLIENT_SECRET = << "s", "3" >>
    /\ Contains(out, SecretLabel \o << "*", "*", "\n" >>)
    /\ ~Contains(out, CLIENT_SECRET)

-----------------------------------------------------------------------------
(* C7 *)

\* C7: once the import has succeeded, no step (a validate() call, the
\* self-test, a change of os.environ or of the .env file) changes any of the
\* seven settings.
C7_SettingsImmutable ==
    [][(pc \in {"loaded", "exited"}) => (settings' = settings)]_vars

\* validate() has been called and EMOTIV_CLIENT_ID has been changed in
\* os.environ, and the loaded client id is still the text it was loaded with
C7_Witness ==
    /\ pc = "loaded" /\ calls >= 1 /\ envChanges >= 1
    /\ "EMOTIV_CLIENT_ID" \in DOMAIN environ
    /\ environ["EMOTIV_CLIENT_ID"] = << "z" >>
    /\ CLIENT_ID = << "i", "d" >>

-----------------------------------------------------------------------------
(* C8 *)

-----------------------------------------------------------------------------
(* C9 *)

\* C9, as stated, for the texts that are not empty: the import succeeds whenever
\* EMOTIV_DEBIT is absent or a non-empty text, and no operation other than
\* validate() raises.
C9_OnlyValidateRaises ==
    (pc # "start" /\ envChanges = 0 /\ Getenv(environ, "EMOTIV_DEBIT", << "1", "0" >>) # << >>)
        => (pc # "crashed" /\ (raised.type # "none" => raised.by = "validate"))

\* C9, amended: the import fails only when EMOTIV_DEBIT is set to a text that
\* int() rejects, it does fail for every such non-empty text, and what it raises
\* is ValueError, not the configuration error; the configuration error
\* (RuntimeError) is raised by validate() only.
C9_ImportFailsOnlyOnDebit ==
    /\ (pc # "start" /\ envChanges = 0)
          => /\ pc = "crashed" => /\ "EMOTIV_DEBIT" \in DOMAIN environ
                                  /\ ~IsIntText(environ["EMOTIV_DEBIT"])
             /\ ( /\ "EMOTIV_DEBIT" \in DOMAIN environ
                  /\ environ["EMOTIV_DEBIT"] # << >>
                  /\ ~IsIntText(environ["EMOTIV_DEBIT"]) ) => pc = "crashed"
    /\ pc = "crashed" => (raised.type = "ValueError" /\ raised.by = "import")
    /\ raised.type = "RuntimeError" => raised.by = "validate"

\* the import has raised ValueError on the debit text "x"
C9_Witness ==
    /\ pc = "crashed"
    /\ raised.type = "ValueError"
    /\ environ["EMOTIV_DEBIT"] = << "x" >>

-----------------------------------------------------------------------------
(* C10 *)

\* C10: a validate() call made with client_id or client_secret empty (it raises
\* the configuration error) leaves the filesystem, the settings, os.environ and
\* the .env file exactly as they were.
C10_NoEffectOnValidationError ==
    [][(ValidateCalled /\ ~CredentialsSet)
         => /\ fs' = fs
            /\ settings' = settings
            /\ environ' = environ /\ envFile' = envFile]_vars

\* validate() has raised the configuration error and the export folder, which
\* did not exist, still does not
C10_Witness ==
    /\ pc = "loaded" /\ calls >= 1
    /\ raised.type = "RuntimeError"
    /\ fs[ExportPath] = "none"

=============================================================================
